---- MODULE Spec2Model ----
(***************************************************************************)
(* carabiner.random.sample_iter: reservoir sampling ("Algorithm L") over   *)
(* a one-pass stream, as a state machine.                                  *)
(*                                                                         *)
(* A call is a process that walks the lines of sample_iter.  Every pull   *)
(* from the stream and every use of the module-level random generator is  *)
(* a step of its own, so that two calls can interleave on the generator    *)
(* they share.                                                             *)
(*                                                                         *)
(* Floats are modelled on a grid: a float in [0, 1] is m / Scale with m    *)
(* in 0..Scale, random() returns one of 0/Scale .. (Scale-1)/Scale (0.0    *)
(* included, 1.0 excluded), and ** and * round to the nearest grid point   *)
(* as the IEEE operations round to the nearest double.  The skip count is  *)
(* the exact value of floor(ln u / ln(1 - W)) for grid points u and W.     *)
(*                                                                         *)
(* The package's other functions (itertools.batched, cast.flatten,         *)
(* collections.MultiKeyDict, cliutils.CLIOption, io.utils.count_lines and  *)
(* pd.utils.sniff) each have a frame variable and a specification of      *)
(* their own, in which sample_iter is not called.                          *)
(***************************************************************************)
EXTENDS Integers, Sequences, FiniteSets, TLC

\* ---------------------------------------------------------------- bounds

\* Longest finite stream.
MaxLen == 3
\* Largest sample size k.
MaxK == 3
\* Grid points per unit: random() returns m / Scale, m in 0..Scale-1.
Scale == 4
\* An endless stream is followed for this many admissions.
MaxAdmit == 1
\* Longest stream and largest k of the two-call specification.
PairMaxLen == 2
PairMaxK == 2
\* Longest stream and largest k of the two interleaved calls.
InterMaxLen == 2
InterMaxK == 1
\* Longest stream and largest k of the calls followed to their end.
TermMaxLen == 2
TermMaxK == 2
\* Longest stream of the calls whose power of line 69 can round to 1.0.
ConvMaxLen == 4
\* Longest iterable and largest batch size given to batched.
BatchMaxLen == 3
BatchMaxN == 3
\* Most items of an iterable given to flatten.
FlatMaxLen == 3
\* Most keys asked of a MultiKeyDict at once.
MaxKeys == 2
\* Most lines of a file given to count_lines.
MaxLines == 8
\* Most extensions of a file name given to sniff.
MaxExts == 2

\* ------------------------------------------------------------- constants

Calls == {1, 2}

\* The stream's items: the letters repeated, as in the doctest's
\* chain.from_iterable(ascii_letters for _ in range(...)).
Letters == <<"a", "b">>

\* Python's None, written over a replaced entry of `values`.
NONE == "None"

\* The raw outputs of the generator; random() is Raw / Scale.
Raw == 0 .. (Scale - 1)

\* The values of k a caller passes: two below 1 and every size up to MaxK.
Ks == {-5, 0} \cup (1 .. MaxK)

\* ------------------------------------------------------------ the stream

\* The item a stream yields at position p (1-based).
Letter(p) == Letters[((p - 1) % Len(Letters)) + 1]

\* ------------------------------------------------------------- the floats

\* random() ** kinv with kinv = 1. / k, for random() = u / Scale: the grid
\* point nearest to Scale * (u / Scale) ^ (1 / k), i.e. the largest r with
\* (r - 1/2) ^ k <= Scale ^ (k - 1) * u.  It is 0 for u = 0 and can be Scale
\* (1.0) for u < Scale.
PowKinv(u, kk) ==
    LET fits(r) == r = 0 \/ (2 * r - 1) ^ kk <= (2 ^ kk) * (Scale ^ (kk - 1)) * u
    IN  CHOOSE r \in 0 .. Scale :
            fits(r) /\ \A q \in 0 .. Scale : fits(q) => q <= r

\* Mutant of MulRound: `W = random() ** kinv` for `W *= random() ** kinv`.
MulForgotten(w, r) == r

\* W * r on the grid ((w / Scale) * (r / Scale)), rounded to nearest, ties
\* to even.
MulRound(w, r) ==
    LET q   == w * r
        lo  == q \div Scale
        rem == q % Scale
    IN  IF 2 * rem < Scale THEN lo
        ELSE IF 2 * rem > Scale THEN lo + 1
        ELSE IF lo % 2 = 0 THEN lo ELSE lo + 1

\* floor(log(u / Scale) / log1p(-(w / Scale))) for 0 < u < Scale and
\* 0 < w < Scale: the largest s with (1 - W) ^ s >= U.
RECURSIVE SkipFrom(_, _, _)
SkipFrom(u, w, s) ==
    IF ((Scale - w) ^ (s + 1)) * Scale >= u * (Scale ^ (s + 1))
    THEN SkipFrom(u, w, s + 1)
    ELSE s

\* Mutant of SkipCount: `islice(iterator, skip + 1, skip + 2)`.
SkipCountOneMore(u, w) == SkipFrom(u, w, 0) + 1

SkipCount(u, w) == SkipFrom(u, w, 0)

\* randrange(k) and shuffle's randbelow(k): an index below k drawn from the
\* generator's raw output.
RandBelow(raw, kk) == raw % kk

\* ---------------------------------------------------------------- state

VARIABLES
    k,              \* [call -> the sample size passed]
    shuffle_output, \* [call -> the flag passed]
    n,              \* [call -> length of the call's stream (finite streams)]
    endless,        \* [call -> the stream never ends]
    errAt,          \* [call -> position whose production raises; 0: none]
    pc,             \* [call -> where the call is]
    pos,            \* [call -> items the iterator has produced]
    values,         \* [call -> the list `values`]
    indices,        \* [call -> the dict `indices`, slot -> index of values, 0-based]
    irange,         \* [call -> len of `irange`]
    W,              \* [call -> W on the grid]
    skip,           \* [call -> items the running islice has still to drop]
    newval,         \* [call -> the item read after the skip]
    shI,            \* [call -> shuffle's loop index i]
    result,         \* [call -> the list returned]
    err,            \* [call -> the exception raised, "none" if none]
    tape,           \* the generator's outputs since seed(), in order
    rngPos,         \* how many of them have been handed out since seed()
    \* history, read by the properties only
    origin,         \* [call -> stream position of each entry of values; 0: None]
    resOrigin,      \* [call -> stream position of each returned item]
    reservoir,      \* [call -> the list at line 89, before the shuffle]
    pulled,         \* [call -> positions obtained from next(), in order]
    why,            \* [call -> for each of them: "fill", "skip" or "take"]
    attempts,       \* [call -> calls of next() on the stream]
    requested,      \* [call -> sum of the skip counts computed]
    admitted,       \* [call -> admissions made]
    drawn,          \* [call -> raw draws of the loop, in order]
    exit,           \* [call -> how the loop ended]
    iters,          \* [call -> executions of line 69]
    \* the frames of the package's other functions, one call of each
    batchedCall,    \* itertools.batched: a generator's frame
    flattenCall,    \* cast.flatten
    getitemCall,    \* collections.MultiKeyDict.__getitem__
    cliOption,      \* cliutils.CLIOption: an option and its replace() copies
    countCall,      \* io.utils.count_lines
    sniffCall       \* pd.utils.sniff and resolve_delim

inputs == <<k, shuffle_output, n, endless, errAt>>
rng    == <<tape, rngPos>>
locals == <<values, indices, irange, W, skip, newval, shI, result, err>>
stream == <<pos, pulled, why, attempts>>
hist   == <<origin, resOrigin, reservoir, requested, admitted, drawn, exit, iters>>
sampler == <<inputs, pc, locals, stream, rng, hist>>
utils  == <<batchedCall, flattenCall, getitemCall, cliOption, countCall, sniffCall>>
vars   == <<sampler, utils>>


Set(f, c, v) == [f EXCEPT ![c] = v]

IsPermutationOf(s, t) ==
    /\ Len(s) = Len(t)
    /\ \E p \in [1 .. Len(s) -> 1 .. Len(s)] :
          /\ \A i, j \in 1 .. Len(s) : p[i] = p[j] => i = j
          /\ \A i \in 1 .. Len(s) : s[i] = t[p[i]]

\* ------------------------------------------------------- initial states

\* What a caller can pass: k, the flag, and a stream that is endless or
\* finite (n items); a finite stream may raise while producing one of its
\* items.
CallInputs(ks, maxLen, withEndless, withErrors) ==
    { f \in [k : ks, shuffle_output : BOOLEAN, n : 0 .. maxLen,
             endless : BOOLEAN, errAt : 0 .. maxLen] :
        /\ f.endless => (withEndless /\ f.n = 0)
        /\ f.errAt > 0 => (withErrors /\ ~f.endless /\ f.errAt <= f.n) }

\* A call that is never made.
NoCall == [k |-> 1, shuffle_output |-> FALSE, n |-> 0, endless |-> FALSE, errAt |-> 0]

InitWith(in, active) ==
    /\ k = [c \in Calls |-> in[c].k]
    /\ shuffle_output = [c \in Calls |-> in[c].shuffle_output]
    /\ n = [c \in Calls |-> in[c].n]
    /\ endless = [c \in Calls |-> in[c].endless]
    /\ errAt = [c \in Calls |-> in[c].errAt]
    /\ pc = [c \in Calls |-> IF c \in active THEN "ready" ELSE "idle"]
    /\ pos = [c \in Calls |-> 0]
    /\ values = [c \in Calls |-> <<>>]
    /\ indices = [c \in Calls |-> <<>>]
    /\ irange = [c \in Calls |-> 0]
    /\ W = [c \in Calls |-> Scale]
    /\ skip = [c \in Calls |-> 0]
    /\ newval = [c \in Calls |-> NONE]
    /\ shI = [c \in Calls |-> 0]
    /\ result = [c \in Calls |-> <<>>]
    /\ err = [c \in Calls |-> "none"]
    /\ tape = <<>>
    /\ rngPos = 0
    /\ origin = [c \in Calls |-> <<>>]
    /\ resOrigin = [c \in Calls |-> <<>>]
    /\ reservoir = [c \in Calls |-> <<>>]
    /\ pulled = [c \in Calls |-> <<>>]
    /\ why = [c \in Calls |-> <<>>]
    /\ attempts = [c \in Calls |-> 0]
    /\ requested = [c \in Calls |-> 0]
    /\ admitted = [c \in Calls |-> 0]
    /\ drawn = [c \in Calls |-> <<>>]
    /\ exit = [c \in Calls |-> "none"]
    /\ iters = [c \in Calls |-> 0]

\* A function of the package that is not called.
NotCalled == [pc |-> "idle"]

\* None of the package's other functions is called, but those in `used`.
UtilsIdle(used) ==
    /\ "batched" \notin used => batchedCall = NotCalled
    /\ "flatten" \notin used => flattenCall = NotCalled
    /\ "getitem" \notin used => getitemCall = NotCalled
    /\ "CLIOption" \notin used => cliOption = NotCalled
    /\ "count_lines" \notin used => countCall = NotCalled
    /\ "sniff" \notin used => sniffCall = NotCalled

\* sample_iter is not called.
NoSampling == InitWith([c \in Calls |-> NoCall], {})

\* One call, with any k and any finite stream.
Init ==
    \E in1 \in CallInputs(Ks, MaxLen, FALSE, TRUE) :
        /\ InitWith([c \in Calls |-> IF c = 1 THEN in1 ELSE NoCall], {1})
        /\ UtilsIdle({})

\* One call, with any k, on a stream that never ends.
LiveInit ==
    \E in1 \in CallInputs(Ks, MaxLen, TRUE, FALSE) :
        /\ in1.endless
        /\ InitWith([c \in Calls |-> IF c = 1 THEN in1 ELSE NoCall], {1})
        /\ UtilsIdle({})

\* Two calls made one after the other on equal streams, as in the doctest
\* (lines 50-55): the same k, or two values of k below 1.
PairInit ==
    \E in1, in2 \in CallInputs({-5, 0} \cup (1 .. PairMaxK), PairMaxLen, FALSE, FALSE) :
        /\ in1.n = in2.n
        /\ in1.k = in2.k \/ (in1.k < 1 /\ in2.k < 1)
        /\ InitWith([c \in Calls |-> IF c = 1 THEN in1 ELSE in2], Calls)
        /\ UtilsIdle({})

\* Two calls under way at once (two threads) on equal streams with the same
\* k, unshuffled, after one seed() of the module-level generator.
InterInit ==
    \E in1 \in CallInputs(1 .. InterMaxK, InterMaxLen, FALSE, FALSE) :
        /\ ~in1.shuffle_output
        /\ InitWith([c \in Calls |-> in1], Calls)
        /\ UtilsIdle({})

\* ------------------------------------------------------- the generator

\* Mutant of Random: a generator that seed() does not govern.
RandomUnseeded(u) ==
    /\ u \in Raw
    /\ tape' = Append(tape, u)
    /\ rngPos' = rngPos + 1

\* One output of the module-level generator: the next one of the sequence
\* the seed fixes.  The sequence is any sequence; it is chosen as it is
\* first read and replayed after seed().
Random(u) ==
    /\ u \in Raw
    /\ IF rngPos < Len(tape)
       THEN u = tape[rngPos + 1] /\ tape' = tape
       ELSE tape' = Append(tape, u)
    /\ rngPos' = rngPos + 1

\* seed(s) with the seed used before, called between calls as in the
\* doctest: the generator starts its sequence again.
Seed ==
    /\ rngPos > 0
    /\ \A c \in Calls : pc[c] \in {"idle", "ready", "done", "raised"}
    /\ rngPos' = 0
    /\ UNCHANGED <<utils, tape, inputs, pc, locals, stream, hist>>

\* ----------------------------------------------------------- the stream

\* What next() on the call's iterator does now: yield an item, signal
\* exhaustion (StopIteration) or raise the stream's own error.
Outcome(c) ==
    IF errAt[c] = pos[c] + 1 THEN "error"
    ELSE IF ~endless[c] /\ pos[c] >= n[c] THEN "stop"
    ELSE "item"

\* Mutant of Yielded: an iterator that yields without advancing.
YieldedInPlace(c, reason) ==
    /\ pos' = pos
    /\ pulled' = Set(pulled, c, Append(pulled[c], pos[c] + 1))
    /\ why' = Set(why, c, Append(why[c], reason))
    /\ attempts' = Set(attempts, c, attempts[c] + 1)

\* next() yielded the item at position pos + 1, pulled for `reason`.
Yielded(c, reason) ==
    /\ pos' = Set(pos, c, pos[c] + 1)
    /\ pulled' = Set(pulled, c, Append(pulled[c], pos[c] + 1))
    /\ why' = Set(why, c, Append(why[c], reason))
    /\ attempts' = Set(attempts, c, attempts[c] + 1)

\* next() did not yield: the iterator stays where it is.
NotYielded(c) ==
    /\ attempts' = Set(attempts, c, attempts[c] + 1)
    /\ UNCHANGED <<pos, pulled, why>>

\* The call ends by raising `e`.
Raise(c, e) ==
    /\ pc' = Set(pc, c, "raised")
    /\ err' = Set(err, c, e)

\* -------------------------------------------------------------- the call

\* islice(iterator, k) accepts a stop that is None or an integer >= 0.
IsliceStopOK(kk) == kk >= 0

\* Lines 59-60: iter(iterable), islice(iterator, k).
Start(c) ==
    /\ pc[c] = "ready"
    /\ IF IsliceStopOK(k[c])
       THEN pc' = Set(pc, c, "fill") /\ UNCHANGED err
       ELSE Raise(c, "ValueError")
    /\ UNCHANGED <<utils, inputs, values, indices, irange, W, skip, newval, shI, result,
                   stream, rng, hist>>

\* Mutant of FillLimit: the fill reads one item ahead.
FillLimitPeek(c) == k[c] + 1

\* How many items list(islice(iterator, k)) asks the iterator for at most.
FillLimit(c) == k[c]

\* Line 60: list(islice(iterator, k)) takes one more item, or ends: at k
\* items without asking for another, or at the stream's exhaustion.
Fill(c) ==
    /\ pc[c] = "fill"
    /\ IF Len(values[c]) >= FillLimit(c)
       THEN /\ pc' = Set(pc, c, "setup")
            /\ UNCHANGED <<values, origin, err, stream>>
       ELSE CASE Outcome(c) = "item" ->
                  /\ Yielded(c, "fill")
                  /\ values' = Set(values, c, Append(values[c], Letter(pos[c] + 1)))
                  /\ origin' = Set(origin, c, Append(origin[c], pos[c] + 1))
                  /\ UNCHANGED <<pc, err>>
              [] Outcome(c) = "stop" ->
                  /\ NotYielded(c)
                  /\ pc' = Set(pc, c, "setup")
                  /\ UNCHANGED <<values, origin, err>>
              [] Outcome(c) = "error" ->
                  /\ NotYielded(c)
                  /\ Raise(c, "StreamError")
                  /\ UNCHANGED <<values, origin>>
    /\ UNCHANGED <<utils, inputs, indices, irange, W, skip, newval, shI, result, rng,
                   resOrigin, reservoir, requested, admitted, drawn, exit, iters>>

\* Lines 62-65: irange, indices (slot i -> entry i), kinv = 1. / k, W = 1.
Setup(c) ==
    /\ pc[c] = "setup"
    /\ irange' = Set(irange, c, Len(values[c]))
    /\ indices' = Set(indices, c, [i \in 1 .. Len(values[c]) |-> i - 1])
    /\ IF k[c] = 0
       THEN Raise(c, "ZeroDivisionError") /\ UNCHANGED W
       ELSE /\ W' = Set(W, c, Scale)
            /\ pc' = Set(pc, c, "loop")
            /\ UNCHANGED err
    /\ UNCHANGED <<utils, inputs, values, skip, newval, shI, result, stream, rng, hist>>

\* Mutant of Converged: the loop ends one grid point below 1.
ConvergedEarly(w) == w >= Scale - 1

\* Line 73: the loop ends when W has reached 1.
Converged(w) == w >= Scale

\* Lines 69-74: W *= random() ** kinv; break if W >= 1.
LoopDraw(c) ==
    /\ pc[c] = "loop"
    /\ \E u \in Raw :
          /\ Random(u)
          /\ drawn' = Set(drawn, c, Append(drawn[c], u))
          /\ LET w == MulRound(W[c], PowKinv(u, k[c]))
             IN  /\ W' = Set(W, c, w)
                 /\ IF Converged(w)
                    THEN /\ pc' = Set(pc, c, "select")
                         /\ exit' = Set(exit, c, "converged")
                    ELSE /\ pc' = Set(pc, c, "skipcalc")
                         /\ UNCHANGED exit
    /\ iters' = Set(iters, c, iters[c] + 1)
    /\ UNCHANGED <<utils, inputs, values, indices, irange, skip, newval, shI, result, err,
                   stream, origin, resOrigin, reservoir, requested, admitted>>

\* Line 77: skip = floor(log(random()) / log1p(-W)).  log(0.0) is a math
\* domain error, and log1p(-0.0) is -0.0, a zero divisor.
SkipCalc(c) ==
    /\ pc[c] = "skipcalc"
    /\ \E u \in Raw :
          /\ Random(u)
          /\ drawn' = Set(drawn, c, Append(drawn[c], u))
          /\ IF u = 0
             THEN Raise(c, "ValueError") /\ UNCHANGED <<skip, requested>>
             ELSE IF W[c] = 0
             THEN Raise(c, "ZeroDivisionError") /\ UNCHANGED <<skip, requested>>
             ELSE /\ skip' = Set(skip, c, SkipCount(u, W[c]))
                  /\ requested' = Set(requested, c, requested[c] + SkipCount(u, W[c]))
                  /\ pc' = Set(pc, c, "skip")
                  /\ UNCHANGED err
    /\ UNCHANGED <<utils, inputs, values, indices, irange, W, newval, shI, result, stream,
                   origin, resOrigin, reservoir, admitted, exit, iters>>

\* Mutant of Absorbed: a bare `except:` around next().
AbsorbedAny(outcome) == TRUE

\* Lines 78-81: what the except clause absorbs of what next() signals.
Absorbed(outcome) == outcome = "stop"

\* Line 79: next(islice(iterator, skip, skip + 1)) drops one of the items to
\* skip, or takes the item after them, or finds the stream at its end.
SkipPull(c) ==
    /\ pc[c] = "skip"
    /\ CASE Outcome(c) = "item" ->
              IF skip[c] > 0
              THEN /\ Yielded(c, "skip")
                   /\ skip' = Set(skip, c, skip[c] - 1)
                   /\ UNCHANGED <<pc, newval, err, exit>>
              ELSE /\ Yielded(c, "take")
                   /\ newval' = Set(newval, c, Letter(pos[c] + 1))
                   /\ pc' = Set(pc, c, "admit")
                   /\ UNCHANGED <<skip, err, exit>>
         [] Outcome(c) # "item" /\ Absorbed(Outcome(c)) ->
              /\ NotYielded(c)
              /\ pc' = Set(pc, c, "select")
              /\ exit' = Set(exit, c, "exhausted")
              /\ UNCHANGED <<skip, newval, err>>
         [] Outcome(c) # "item" /\ ~Absorbed(Outcome(c)) ->
              /\ NotYielded(c)
              /\ Raise(c, IF Outcome(c) = "stop" THEN "StopIteration" ELSE "StreamError")
              /\ UNCHANGED <<skip, newval, exit>>
    /\ UNCHANGED <<utils, inputs, values, indices, irange, W, shI, result, rng,
                   origin, resOrigin, reservoir, requested, admitted, drawn, iters>>

\* Mutant of Replaced: the placeholder is written over the entry of the next
\* slot.
ReplacedNeighbour(c, slot) == indices[c][((slot + 1) % Len(indices[c])) + 1]

\* Line 85: the entry of `values` the placeholder is written over.
Replaced(c, slot) == indices[c][slot + 1]

\* Mutant of Appended: `indices[remove_index] = len(values) - 1`.
AppendedOffByOne(c) == Len(values[c]) - 1

\* Line 86: the index of `values` the slot is pointed at, where line 87
\* puts the new item.
Appended(c) == Len(values[c])

\* Lines 84-87: remove_index = randrange(k); the slot's entry becomes None,
\* the slot points at the end of `values`, and the new item is appended.
Admit(c) ==
    /\ pc[c] = "admit"
    /\ endless[c] => admitted[c] < MaxAdmit
    /\ \E r \in Raw :
          /\ Random(r)
          /\ drawn' = Set(drawn, c, Append(drawn[c], r))
          /\ LET slot == RandBelow(r, k[c])
             IN  IF slot + 1 \in DOMAIN indices[c]
                 THEN /\ values' = Set(values, c,
                              Append([values[c] EXCEPT ![Replaced(c, slot) + 1] = NONE],
                                     newval[c]))
                      /\ origin' = Set(origin, c,
                              Append([origin[c] EXCEPT ![Replaced(c, slot) + 1] = 0],
                                     pos[c]))
                      /\ indices' = Set(indices, c,
                              [indices[c] EXCEPT ![slot + 1] = Appended(c)])
                      /\ admitted' = Set(admitted, c, admitted[c] + 1)
                      /\ pc' = Set(pc, c, "loop")
                      /\ UNCHANGED err
                 ELSE /\ Raise(c, "KeyError")
                      /\ UNCHANGED <<values, origin, indices, admitted>>
    /\ UNCHANGED <<utils, inputs, irange, W, skip, newval, shI, result, stream,
                   resOrigin, reservoir, requested, exit, iters>>

\* Mutant of Selected: the slots read from the last to the first.
SelectedReversed(c) == [i \in 1 .. irange[c] |-> values[c][indices[c][irange[c] + 1 - i] + 1]]

\* Mutant of Selected: `values` returned as it is, line 89 left out.
SelectedAll(c) == values[c]

\* Line 89: values = [values[indices[i]] for i in irange].
Selected(c) == [i \in 1 .. irange[c] |-> values[c][indices[c][i] + 1]]

\* Line 91: whether the list is shuffled.
Shuffles(c) == shuffle_output[c]

Select(c) ==
    /\ pc[c] = "select"
    /\ values' = Set(values, c, Selected(c))
    /\ reservoir' = Set(reservoir, c, Selected(c))
    /\ resOrigin' = Set(resOrigin, c,
            [i \in 1 .. irange[c] |-> origin[c][indices[c][i] + 1]])
    /\ shI' = Set(shI, c, irange[c] - 1)
    /\ pc' = Set(pc, c, IF Shuffles(c) /\ irange[c] > 1 THEN "shuffle" ELSE "return")
    /\ UNCHANGED <<utils, inputs, indices, irange, W, skip, newval, result, err, stream, rng,
                   origin, requested, admitted, drawn, exit, iters>>

\* Mutant of Swap: `x[i] = x[j]`, the other half of the swap forgotten.
SwapLossy(x, i, j) == [x EXCEPT ![i + 1] = x[j + 1]]

\* x[i], x[j] = x[j], x[i] (0-based i and j).
Swap(x, i, j) == [x EXCEPT ![i + 1] = x[j + 1], ![j + 1] = x[i + 1]]

\* Line 92: shuffle(values), one round of its loop
\* (for i in reversed(range(1, len(x))): j = randbelow(i + 1); swap).
Shuffle(c) ==
    /\ pc[c] = "shuffle"
    /\ \E r \in Raw :
          /\ Random(r)
          /\ values' = Set(values, c, Swap(values[c], shI[c], RandBelow(r, shI[c] + 1)))
          /\ resOrigin' = Set(resOrigin, c,
                 [resOrigin[c] EXCEPT ![shI[c] + 1] = resOrigin[c][RandBelow(r, shI[c] + 1) + 1],
                                      ![RandBelow(r, shI[c] + 1) + 1] = resOrigin[c][shI[c] + 1]])
    /\ shI' = Set(shI, c, shI[c] - 1)
    /\ pc' = Set(pc, c, IF shI[c] - 1 >= 1 THEN "shuffle" ELSE "return")
    /\ UNCHANGED <<utils, inputs, indices, irange, W, skip, newval, result, err, stream,
                   origin, reservoir, requested, admitted, drawn, exit, iters>>

\* Line 94: return values.
Return(c) ==
    /\ pc[c] = "return"
    /\ result' = Set(result, c, values[c])
    /\ pc' = Set(pc, c, "done")
    /\ UNCHANGED <<utils, inputs, values, indices, irange, W, skip, newval, shI, err, stream,
                   rng, hist>>

Step(c) ==
    \/ Start(c)
    \/ Fill(c)
    \/ Setup(c)
    \/ LoopDraw(c)
    \/ SkipCalc(c)
    \/ SkipPull(c)
    \/ Admit(c)
    \/ Select(c)
    \/ Shuffle(c)
    \/ Return(c)

Next == \E c \in Calls : Step(c)

Spec == Init /\ [][Next]_vars

\* No call other than c is under way.
Alone(c) == \A d \in Calls \ {c} : pc[d] \in {"idle", "ready", "done", "raised"}

\* The doctest's session: seed(1), a call, seed(1), a call.  A call is made
\* on the freshly seeded generator and returns before the next is made.
PairNext ==
    \/ Seed
    \/ \E c \in Calls :
          /\ Alone(c)
          /\ pc[c] = "ready" => rngPos = 0
          /\ Step(c)

PairSpec == PairInit /\ [][PairNext]_vars

\* The call's next step uses the module-level generator (lines 69, 77, 84
\* and 92); its other steps touch its own locals and its own stream only.
AtDraw(c) == pc[c] \in {"loop", "skipcalc", "admit", "shuffle"}

\* The call has started and has not ended.
UnderWay(c) == pc[c] \notin {"idle", "ready", "done", "raised"}

\* Two threads on the generator the module imports (lines 5-6).  The second
\* call gets the processor while the first is under way and about to draw,
\* and keeps it until it ends: a time slice is longer than a call on a
\* short stream.
InterNext ==
    \/ /\ ~UnderWay(2)
       /\ Step(1)
    \/ /\ UnderWay(2) \/ AtDraw(1)
       /\ Step(2)

InterSpec == InterInit /\ [][InterNext]_vars

\* A call on an endless stream.  A call that has not returned or raised
\* goes on: the interpreter runs it.
LiveSpec == LiveInit /\ [][Next]_vars /\ \A c \in Calls : WF_vars(Step(c))


\* ====================================================== itertools.batched

Min(a, b) == IF a <= b THEN a ELSE b

\* The concatenation of a sequence of sequences.
RECURSIVE Concat(_)
Concat(seqs) == IF seqs = <<>> THEN <<>> ELSE Head(seqs) \o Concat(Tail(seqs))

\* Mutant of Taken: a batch that is not full is dropped.
TakenOnlyFull(x, it, size) ==
    IF it + size <= Len(x) THEN SubSeq(x, it + 1, it + size) ELSE <<>>

\* tuple(islice(it, n)) when `it` has yielded `it` items of x: the next n
\* items, or those that are left.
Taken(x, it, size) == SubSeq(x, it + 1, Min(it + size, Len(x)))

\* The iterables given to batched: the sequences of letters up to a length.
Iterables(maxLen) == UNION { [1 .. len -> {"a", "b"}] : len \in 0 .. maxLen }

BatchedInit ==
    /\ NoSampling
    /\ UtilsIdle({"batched"})
    /\ \E x \in Iterables(BatchMaxLen), size \in -1 .. BatchMaxN :
          batchedCall = [pc |-> "start", iterable |-> x, n |-> size, it |-> 0,
                         batches |-> <<>>, err |-> "none"]

\* next() on the generator batched() returns.  The body runs from its start
\* (lines 37-39) or from the yield (line 41) to the next yield (lines 40-41)
\* or to its end.
BatchedNext ==
    /\ batchedCall.pc \in {"start", "yielded"}
    /\ LET b     == batchedCall
           batch == Taken(b.iterable, b.it, b.n)
       IN  batchedCall' =
             IF b.pc = "start" /\ b.n < 1
             THEN [b EXCEPT !.pc = "raised", !.err = "ValueError"]
             ELSE IF batch # <<>>
             THEN [b EXCEPT !.pc = "yielded", !.it = b.it + Len(batch),
                            !.batches = Append(b.batches, batch)]
             ELSE [b EXCEPT !.pc = "exhausted"]
    /\ UNCHANGED <<sampler, flattenCall, getitemCall, cliOption, countCall, sniffCall>>

BatchedSpec == BatchedInit /\ [][BatchedNext]_vars


\* =========================================================== cast.flatten

\* Python values: strings (their characters), ints, and the iterables
\* flatten is registered for.  A lazy iterable is an "iterator"; what
\* chain.from_iterable returns is a "chain".
StrVal(chars)   == [type |-> "str", chars |-> chars]
IntVal(i)       == [type |-> "int", v |-> i]
ListVal(items)  == [type |-> "list", items |-> items]
TupleVal(items) == [type |-> "tuple", items |-> items]
SetVal(items)   == [type |-> "set", items |-> items]
LazyVal(items)  == [type |-> "iterator", items |-> items]
ChainVal(items) == [type |-> "chain", items |-> items]
TypeError       == [type |-> "TypeError"]

\* The items put into the iterables: 'a', 'ab' and 1.
Items == {StrVal(<<"a">>), StrVal(<<"a", "b">>), IntVal(1)}

\* Line 348: the batch size flatten reads a lazy iterable with.
FlattenBatch == 1000

\* list(batched(x, n)): the batches the generator yields until exhausted.
RECURSIVE BatchesFrom(_, _, _)
BatchesFrom(x, it, size) ==
    IF Taken(x, it, size) = <<>> THEN <<>>
    ELSE <<Taken(x, it, size)>> \o BatchesFrom(x, it + Len(Taken(x, it, size)), size)

\* tuple(v): the items of a list or tuple, the characters of a string; an
\* int is not iterable.
TupleOf(v) ==
    CASE v.type \in {"list", "tuple"} -> TupleVal(v.items)
      [] v.type = "str" -> TupleVal([i \in 1 .. Len(v.chars) |-> StrVal(<<v.chars[i]>>)])
      [] OTHER -> TypeError

\* Lines 293-302: the implementation registered for list.
FlattenList(x) == IF Len(x.items) = 1 THEN x.items[1] ELSE x

\* Lines 324-327: the implementation registered for tuple,
\* tuple(flatten(list(x))).
FlattenTuple(x) == TupleOf(FlattenList(ListVal(x.items)))

\* Lines 330-339: the implementation registered for set.
FlattenSet(x) ==
    IF Cardinality(x.items) = 1 THEN CHOOSE i \in x.items : TRUE ELSE x

\* Lines 342-365: the implementation registered for Iterable.  The first
\* batch alone is looked at; every batch is kept and chained.
FlattenIterable(x) ==
    LET batches == BatchesFrom(x.items, 0, FlattenBatch)
    IN  IF batches # <<>> /\ Len(batches[1]) = 1
        THEN batches[1][1]
        ELSE ChainVal(Concat(batches))

\* Lines 251-365: flatten, dispatched on the type of x.
Flatten(x) ==
    CASE x.type = "list" -> FlattenList(x)
      [] x.type \in {"str", "int"} -> x
      [] x.type = "tuple" -> FlattenTuple(x)
      [] x.type = "set" -> FlattenSet(x)
      [] x.type = "iterator" -> FlattenIterable(x)
      [] OTHER -> TypeError

\* What flatten is called with.
FlattenArgs ==
    Items
    \cup { ListVal(i) : i \in UNION { [1 .. len -> Items] : len \in 0 .. FlatMaxLen } }
    \cup { TupleVal(i) : i \in UNION { [1 .. len -> Items] : len \in 0 .. FlatMaxLen } }
    \cup { LazyVal(i) : i \in UNION { [1 .. len -> Items] : len \in 0 .. FlatMaxLen } }
    \cup { SetVal(i) : i \in SUBSET Items }

FlattenInit ==
    /\ NoSampling
    /\ UtilsIdle({"flatten"})
    /\ \E x \in FlattenArgs : flattenCall = [pc |-> "called", x |-> x]

\* The call returns or raises.
FlattenReturn ==
    /\ flattenCall.pc = "called"
    /\ flattenCall' =
          IF Flatten(flattenCall.x) = TypeError
          THEN [pc |-> "raised", x |-> flattenCall.x, result |-> TypeError]
          ELSE [pc |-> "returned", x |-> flattenCall.x, result |-> Flatten(flattenCall.x)]
    /\ UNCHANGED <<sampler, batchedCall, getitemCall, cliOption, countCall, sniffCall>>

FlattenSpec == FlattenInit /\ [][FlattenReturn]_vars


\* ============================================== collections.MultiKeyDict

\* The keys stored: 'a', 'b', 'ab' and 1.
Keys == {StrVal(<<"a">>), StrVal(<<"b">>), StrVal(<<"a", "b">>), IntVal(1)}

\* The value stored under a key (the dictionaries differ in their keys).
ValueOf(key) == IF key.type = "int" THEN 0 ELSE Len(key.chars)

\* iter(v) works on a tuple and a string; an int is not iterable.
IsIterable(v) == v.type \in {"tuple", "str"}

\* Line 29: what chain.from_iterable(args) yields for args = (key,): the
\* items of a tuple, the characters of a string.
ChainedArgs(key) ==
    IF key.type = "tuple" THEN key.items
    ELSE [i \in 1 .. Len(key.chars) |-> StrVal(<<key.chars[i]>>)]

\* Line 31: {arg: self.data[arg] for arg in args}; a missing arg is a
\* KeyError.
GetItem(data, key) ==
    LET args == ChainedArgs(key)
    IN  IF ~IsIterable(key) THEN [pc |-> "raised", err |-> "TypeError"]
        ELSE IF \E i \in 1 .. Len(args) : args[i] \notin DOMAIN data
        THEN [pc |-> "raised", err |-> "KeyError"]
        ELSE [pc |-> "returned",
              result |-> [arg \in {args[i] : i \in 1 .. Len(args)} |-> data[arg]]]

\* d[key] for a key of d, or d[k1, ..., kn] for keys of d.
GetItemInit ==
    /\ NoSampling
    /\ UtilsIdle({"getitem"})
    /\ \E stored \in SUBSET Keys :
          \E key \in stored \cup
                     { TupleVal(t) : t \in UNION { [1 .. len -> stored] : len \in 1 .. MaxKeys } } :
              getitemCall = [pc |-> "called",
                             data |-> [arg \in stored |-> ValueOf(arg)],
                             key |-> key]

\* Lines 27-31: __getitem__ returns or raises.
GetItemReturn ==
    /\ getitemCall.pc = "called"
    /\ getitemCall' = [data |-> getitemCall.data, key |-> getitemCall.key]
                        @@ GetItem(getitemCall.data, getitemCall.key)
    /\ UNCHANGED <<sampler, batchedCall, flattenCall, cliOption, countCall, sniffCall>>

GetItemSpec == GetItemInit /\ [][GetItemReturn]_vars


\* ===================================================== cliutils.CLIOption

\* A help string is a sequence of parts: text the caller wrote, and the
\* suffixes ' Default: "d".' and ' Required.'.
Text(t)          == [kind |-> "text", v |-> t]
DefaultSuffix(d) == [kind |-> "Default", v |-> d]
RequiredSuffix   == [kind |-> "Required", v |-> ""]

\* The keywords an option is made with: which of help, default and required
\* are passed, and their values: a help string that may already hold a
\* suffix, a default that is None or a value, required False or True.
Kwargs ==
    { kw \in [passed : SUBSET {"help", "default", "required"},
              help : {<<>>, <<Text("h")>>, <<Text("h"), RequiredSuffix>>,
                      <<Text("h"), DefaultSuffix("3")>>},
              default : {NONE, "3"},
              required : BOOLEAN] :
        /\ "help" \notin kw.passed => kw.help = <<>>
        /\ "help" \in kw.passed => kw.help # <<>>
        /\ "default" \notin kw.passed => kw.default = NONE
        /\ "required" \notin kw.passed => kw.required = FALSE }

\* The keyword replace() is called with, if any.
Replacements ==
    { [key |-> "none"],
      [key |-> "help", value |-> <<Text("n")>>],
      [key |-> "default", value |-> "4"],
      [key |-> "required", value |-> TRUE],
      [key |-> "required", value |-> FALSE] }

\* ' Default: ' in help (line 98).
HasDefault(help) == \E i \in 1 .. Len(help) : help[i].kind = "Default"

\* Lines 88-93: required and a default that is not None are refused.
Refused(kw) ==
    /\ "required" \in kw.passed
    /\ "default" \in kw.passed
    /\ kw.default # NONE
    /\ kw.required

\* Lines 95-105: the help string after __post_init__.
PostInit(kw) ==
    IF "help" \notin kw.passed THEN kw
    ELSE IF "default" \in kw.passed /\ ~HasDefault(kw.help) /\ kw.default # NONE
    THEN [kw EXCEPT !.help = Append(kw.help, DefaultSuffix(kw.default))]
    ELSE IF "required" \in kw.passed /\ kw.required
    THEN [kw EXCEPT !.help = Append(kw.help, RequiredSuffix)]
    ELSE kw

\* Lines 134-136: _copy.kwargs[key] = value.
Substituted(kw, repl) ==
    IF repl.key = "none" THEN kw
    ELSE [kw EXCEPT ![repl.key] = repl.value, !.passed = kw.passed \cup {repl.key}]

CLIOptionInit ==
    /\ NoSampling
    /\ UtilsIdle({"CLIOption"})
    /\ \E kw \in Kwargs : cliOption = [pc |-> "called", kwargs |-> kw]

\* Lines 120-123 and 86-105: CLIOption(*args, **kwargs).
Construct ==
    /\ cliOption.pc = "called"
    /\ cliOption' =
          IF Refused(cliOption.kwargs)
          THEN [pc |-> "raised", err |-> "AttributeError", kwargs |-> cliOption.kwargs]
          ELSE [pc |-> "built", class |-> "CLIOption", replaced |-> 0,
                kwargs |-> PostInit(cliOption.kwargs)]
    /\ UNCHANGED <<sampler, batchedCall, flattenCall, getitemCall, countCall, sniffCall>>

\* Lines 125-138: option.replace(**kwargs).  The copy is a BaseCLIOption
\* made from the option's fields, so __post_init__ runs on it before the
\* keywords are substituted; a BaseCLIOption has no replace().
Replace ==
    /\ cliOption.pc = "built"
    /\ \E repl \in Replacements :
          cliOption' =
            IF cliOption.class # "CLIOption"
            THEN [pc |-> "raised", err |-> "AttributeError", kwargs |-> cliOption.kwargs]
            ELSE [pc |-> "built", class |-> "BaseCLIOption",
                  replaced |-> cliOption.replaced + 1,
                  kwargs |-> Substituted(PostInit(cliOption.kwargs), repl)]
    /\ UNCHANGED <<sampler, batchedCall, flattenCall, getitemCall, countCall, sniffCall>>

CLIOptionNext == Construct \/ Replace

CLIOptionSpec == CLIOptionInit /\ [][CLIOptionNext]_vars


\* ===================================================== io.utils.count_lines

\* count_lines(filename, progress) on a file of `lines` lines.  The loop
\* variable i is not bound before the first iteration.
CountInit ==
    /\ NoSampling
    /\ UtilsIdle({"count_lines"})
    /\ \E lines \in 0 .. MaxLines, progress \in BOOLEAN :
          countCall = [pc |-> "loop", lines |-> lines, progress |-> progress,
                       read |-> 0, bound |-> FALSE, i |-> 0]

\* Lines 63-67: one iteration of `for i, _ in _enumerate_file(...)`: the
\* enumerator (enumerate, or tenumerate with progress) yields the next
\* line with its index.
CountLine ==
    /\ countCall.pc = "loop"
    /\ countCall.read < countCall.lines
    /\ countCall' = [countCall EXCEPT !.i = countCall.read, !.bound = TRUE,
                                      !.read = countCall.read + 1]
    /\ UNCHANGED <<sampler, batchedCall, flattenCall, getitemCall, cliOption, sniffCall>>

\* Line 69: return i + 1, once the file is read through.
CountReturn ==
    /\ countCall.pc = "loop"
    /\ countCall.read = countCall.lines
    /\ countCall' =
          IF countCall.bound
          THEN [countCall EXCEPT !.pc = "returned"] @@ [result |-> countCall.i + 1]
          ELSE [countCall EXCEPT !.pc = "raised"] @@ [err |-> "UnboundLocalError"]
    /\ UNCHANGED <<sampler, batchedCall, flattenCall, getitemCall, cliOption, sniffCall>>

CountNext == CountLine \/ CountReturn

CountSpec == CountInit /\ [][CountNext]_vars


\* ============================================================ pd.utils.sniff

\* A file name is a stem ('t', or '' for a name that starts with a dot)
\* followed by extensions: 't.tsv.gz' is t with tsv and gz.
Exts == {"txt", "tsv", "csv", "xlsx", "cool", "gz", "gzip"}

FileNames(maxExts) ==
    [stem : {"t", ""}, exts : UNION { [1 .. len -> Exts] : len \in 0 .. maxExts }]

\* The delimiters: '\t', ',', 'xlsx', '.', and the pattern '\s+'.
TAB == "\\t"
WHITESPACE == "\\s+"

\* Python's None as a result.
NoFormat == [type |-> "None"]

\* The call did not return: the recursion did not end.
RecursionError == [type |-> "RecursionError"]

\* Lines 24-45: IOFormat(in_delim, strict=strict) after __post_init__.
IOFormat(in_delim, strict) ==
    [type |-> "IOFormat",
     in_delim |-> IF in_delim = TAB /\ ~strict THEN WHITESPACE ELSE in_delim,
     out_delim |-> in_delim,
     strict |-> strict]

\* Lines 129-132: default_fn(strict).
DefaultFn(default, strict) ==
    IF default # NONE THEN IOFormat(default, strict) ELSE NoFormat

\* Lines 48-56 and 133: _FORMAT.get(format.casefold(), default_fn)(strict),
\* for a format name with or without its dot ('' for no extension).
FormatOf(format, default, strict) ==
    CASE format \in {"txt", "tsv"} -> IOFormat(TAB, strict)
      [] format = "csv" -> IOFormat(",", TRUE)
      [] format = "xlsx" -> IOFormat("xlsx", TRUE)
      [] OTHER -> DefaultFn(default, strict)

\* Lines 85-139: format2delim.
Format2Delim(format, default, allow_excel, strict) ==
    LET delim == FormatOf(format, default, strict)
    IN  IF delim # NoFormat /\ delim.in_delim = "xlsx" /\ ~allow_excel
        THEN DefaultFn(default, strict)
        ELSE delim

\* os.path.splitext(filename): the last extension is split off, unless the
\* name is nothing but a dot and that extension.
HasExt(f) == Len(f.exts) > 0 /\ ~(f.stem = "" /\ Len(f.exts) = 1)

SplitRoot(f) ==
    IF HasExt(f) THEN [f EXCEPT !.exts = SubSeq(f.exts, 1, Len(f.exts) - 1)] ELSE f

SplitExt(f) == IF HasExt(f) THEN f.exts[Len(f.exts)] ELSE ""

\* Line 197: filename.endswith('.gz') or filename.endswith('.gzip').
EndsWithGz(f) == Len(f.exts) > 0 /\ f.exts[Len(f.exts)] \in {"gz", "gzip"}

\* Line 199: the strict the inner call gets from
\* sniff(new_filename, default, allow_excel): the parameter's default.
SniffInner(strict) == TRUE

\* Lines 142-207: sniff.
RECURSIVE Sniff(_, _, _, _)
Sniff(f, default, allow_excel, strict) ==
    IF EndsWithGz(f)
    THEN IF SplitRoot(f) = f
         THEN RecursionError
         ELSE Sniff(SplitRoot(f), default, allow_excel, SniffInner(strict))
    ELSE Format2Delim(SplitExt(f), default, allow_excel, strict)

\* Lines 210-256: resolve_delim; format is None or a format name.
ResolveDelim(f, format, default, allow_excel) ==
    IF format = NONE
    THEN Sniff(f, default, allow_excel, TRUE)
    ELSE Format2Delim(format, default, TRUE, TRUE)

\* A call of sniff(file, default, allow_excel, strict) or of
\* resolve_delim(file, format, default, allow_excel).
SniffInit ==
    /\ NoSampling
    /\ UtilsIdle({"sniff"})
    /\ \E f \in FileNames(MaxExts), default \in {NONE, ".", TAB, "xlsx"},
          allow_excel \in BOOLEAN, strict \in BOOLEAN,
          format \in {NONE, "csv", "xlsx"}, fn \in {"sniff", "resolve_delim"} :
          /\ fn = "sniff" => format = NONE
          /\ fn = "resolve_delim" => strict
          /\ sniffCall = [pc |-> "called", fn |-> fn, file |-> f, format |-> format,
                          default |-> default, allow_excel |-> allow_excel,
                          strict |-> strict]

\* The call returns (or does not end).
SniffReturn ==
    /\ sniffCall.pc = "called"
    /\ LET c == sniffCall
           r == IF c.fn = "sniff"
                THEN Sniff(c.file, c.default, c.allow_excel, c.strict)
                ELSE ResolveDelim(c.file, c.format, c.default, c.allow_excel)
       IN  sniffCall' = [c EXCEPT !.pc = IF r = RecursionError THEN "raised" ELSE "returned"]
                         @@ [result |-> r]
    /\ UNCHANGED <<sampler, batchedCall, flattenCall, getitemCall, cliOption, countCall>>

SniffSpec == SniffInit /\ [][SniffReturn]_vars


\* ============================================================ properties

\* The items of a finite stream, in order.
StreamOf(c) == [p \in 1 .. n[c] |-> Letter(p)]

Count(seq, x) == Cardinality({i \in DOMAIN seq : seq[i] = x})

Returned(c) == pc[c] = "done"

\* C1: for k >= 1 and a finite stream of n <= k items (n = 0 included) the
\* call does not raise, and the list it returns holds exactly the stream's
\* items, each once per occurrence.
C1_ShortStreamReturnedWhole ==
    \A c \in Calls :
        (k[c] >= 1 /\ ~endless[c] /\ errAt[c] = 0 /\ n[c] <= k[c]) =>
            /\ pc[c] # "raised"
            /\ Returned(c) => IsPermutationOf(result[c], StreamOf(c))

\* C2: for k >= 1 and a finite stream of n > k items, whatever the draws,
\* the list returned has exactly k items, each the stream's item at some
\* position, and no two of them come from the same position.
C2_SampleOfDistinctPositions ==
    \A c \in Calls :
        (Returned(c) /\ k[c] >= 1 /\ ~endless[c] /\ n[c] > k[c]) =>
            /\ Len(result[c]) = k[c]
            /\ Len(resOrigin[c]) = k[c]
            /\ \A i \in 1 .. k[c] :
                  /\ resOrigin[c][i] \in 1 .. n[c]
                  /\ result[c][i] = Letter(resOrigin[c][i])
            /\ \A i, j \in 1 .. k[c] : resOrigin[c][i] = resOrigin[c][j] => i = j

\* A call with k = 2 on three items returned after replacing an item.
C2_Witness ==
    \E c \in Calls :
        Returned(c) /\ k[c] = 2 /\ ~endless[c] /\ n[c] > k[c] /\ admitted[c] >= 1

\* C4: every k < 1 makes the call fail with one kind of error, the same for
\* k = 0 as for a negative k, and nothing is returned.
C4_OneErrorKindBelowOne ==
    \A c, d \in Calls :
        /\ k[c] < 1 => (~Returned(c) /\ result[c] = <<>>)
        /\ (k[c] < 1 /\ k[d] < 1 /\ pc[c] = "raised" /\ pc[d] = "raised") => err[c] = err[d]

\* C5: two calls with shuffle_output = False, made with the same stream and
\* k, each on the generator seeded alike, receive the same draws and return
\* the same list, item for item.
C5_SameSeedSameList ==
    \A c, d \in Calls :
        (Returned(c) /\ Returned(d) /\ ~shuffle_output[c] /\ ~shuffle_output[d]
            /\ k[c] = k[d] /\ n[c] = n[d]) =>
            /\ drawn[c] = drawn[d]
            /\ result[c] = result[d]

\* Both calls have returned, unshuffled, after an admission each.
C5_Witness ==
    /\ \A c \in Calls : Returned(c) /\ ~shuffle_output[c] /\ admitted[c] >= 1
    /\ k[1] = k[2]

\* C6: with shuffle_output = False the returned items are in the stream's
\* order: an item that comes earlier in the stream comes earlier in the list.
C6_ReturnedInStreamOrder ==
    \A c \in Calls :
        (Returned(c) /\ ~shuffle_output[c]) =>
            \A i, j \in 1 .. Len(resOrigin[c]) :
                i < j => resOrigin[c][i] < resOrigin[c][j]

\* C7: one forward pass: the items obtained are the stream's positions 1, 2,
\* ... in order, each once; they are at most k fill items, which come first,
\* then exactly the items a skip count asked to drop, and one item taken
\* after each completed skip.  Nothing else is read.
C7_SingleForwardPass ==
    \A c \in Calls :
        /\ Len(pulled[c]) = pos[c]
        /\ \A i \in 1 .. Len(pulled[c]) : pulled[c][i] = i
        /\ k[c] >= 0 => Count(why[c], "fill") <= k[c]
        /\ \A i \in 1 .. Len(why[c]) : why[c][i] = "fill" <=> i <= Count(why[c], "fill")
        /\ Count(why[c], "skip") + skip[c] = requested[c]
        /\ Count(why[c], "take") = admitted[c] + (IF pc[c] = "admit" THEN 1 ELSE 0)
        /\ \A i \in 1 .. Len(why[c]) : why[c][i] \in {"fill", "skip", "take"}

\* A call returned after filling, dropping an item and taking one.
C7_Witness ==
    \E c \in Calls :
        /\ Returned(c)
        /\ Count(why[c], "fill") = k[c]
        /\ Count(why[c], "skip") >= 1
        /\ admitted[c] >= 1

\* The stream raised its own error at the call's last next().
StreamFailed(c) == errAt[c] = pos[c] + 1 /\ attempts[c] > pos[c]

\* C8: when the stream raises while producing an item, in the fill or in a
\* skip, the call ends raising that error: nothing is returned and next()
\* is not called again.  Only the stream's exhaustion ends the loop quietly.
C8_StreamErrorPropagates ==
    \A c \in Calls :
        /\ StreamFailed(c) =>
              /\ pc[c] = "raised"
              /\ err[c] = "StreamError"
              /\ result[c] = <<>>
              /\ attempts[c] = pos[c] + 1
        /\ err[c] = "StreamError" => StreamFailed(c)
        /\ exit[c] = "exhausted" => (Outcome(c) = "stop" /\ err[c] = "none")

\* The stream raised during a skip, after the fill and a draw of W.
C8_Witness ==
    \E c \in Calls :
        /\ StreamFailed(c)
        /\ pc[c] = "raised"
        /\ k[c] >= 1
        /\ pos[c] >= k[c]
        /\ iters[c] >= 1

\* C9: for the same stream, k and loop draws, the list returned with
\* shuffle_output = True is a permutation of the one returned with False.
C9_ShuffleOnlyPermutes ==
    \A c, d \in Calls :
        (Returned(c) /\ Returned(d) /\ shuffle_output[c] /\ ~shuffle_output[d]
            /\ k[c] = k[d] /\ n[c] = n[d] /\ drawn[c] = drawn[d]) =>
            IsPermutationOf(result[c], result[d])

\* The shuffled list differs from the unshuffled one.
C9_Witness ==
    \E c, d \in Calls :
        /\ Returned(c) /\ Returned(d) /\ shuffle_output[c] /\ ~shuffle_output[d]
        /\ k[c] = k[d] /\ drawn[c] = drawn[d]
        /\ result[c] # result[d]

C11_InterleavedCallsIndependent ==
    \A c, d \in Calls :
        /\ Returned(c) =>
              \A i \in 1 .. Len(result[c]) :
                  /\ resOrigin[c][i] \in 1 .. pos[c]
                  /\ result[c][i] = Letter(resOrigin[c][i])
        /\ (Returned(c) /\ Returned(d) /\ k[c] = k[d] /\ n[c] = n[d]
               /\ ~shuffle_output[c] /\ ~shuffle_output[d]) =>
              result[c] = result[d]

\* C12: batched raises ValueError for n < 1 and yields nothing; for n >= 1
\* it does not raise, every batch yielded holds n items except possibly the
\* last of the iterable, which holds at least one, and the batches yielded,
\* put end to end, are the items consumed, in order: the whole iterable once
\* the generator is exhausted.
C12_BatchesPartitionInput ==
    LET b == batchedCall
    IN  b.pc # "idle" =>
          /\ b.n < 1 => (b.pc \in {"start", "raised"} /\ b.batches = <<>>)
          /\ b.pc = "raised" <=> b.err = "ValueError"
          /\ b.n >= 1 =>
                /\ b.pc # "raised"
                /\ \A i \in 1 .. Len(b.batches) :
                      /\ Len(b.batches[i]) \in 1 .. b.n
                      /\ Len(b.batches[i]) < b.n =>
                            (i = Len(b.batches) /\ b.it = Len(b.iterable))
                /\ Concat(b.batches) = SubSeq(b.iterable, 1, b.it)
                /\ b.pc = "exhausted" => Concat(b.batches) = b.iterable

\* batched('aba', 2) or the like, exhausted: a full batch and a shorter one.
C12_Witness ==
    /\ batchedCall.pc = "exhausted"
    /\ Len(batchedCall.batches) >= 2
    /\ Len(batchedCall.batches[Len(batchedCall.batches)]) < batchedCall.n

\* C13: for a list, tuple, set or lazy iterable with exactly one item
\* flatten returns that item; with no item or more than one it returns the
\* same items in the same order (the iterable itself, or for a lazy
\* iterable a lazy iterable of its items).
C13_FlattenOneOrSame ==
    LET f == flattenCall
    IN  (f.pc \in {"returned", "raised"}
            /\ f.x.type \in {"list", "tuple", "set", "iterator"}) =>
          /\ f.pc = "returned"
          /\ IF f.x.type = "set"
             THEN IF Cardinality(f.x.items) = 1
                  THEN \A i \in f.x.items : f.result = i
                  ELSE f.result = f.x
             ELSE IF Len(f.x.items) = 1
                  THEN f.result = f.x.items[1]
                  ELSE IF f.x.type = "iterator"
                       THEN f.result = ChainVal(f.x.items)
                       ELSE f.result = f.x

\* C14: a lookup returns the dictionary restricted to the keys asked for:
\* d[key] is {key: d's value of key} for any stored key, of one character
\* or not, and d[k1, ..., kn] is {ki: d's value of ki}.
C14_LookupIsRestriction ==
    LET g == getitemCall
    IN  g.pc \in {"returned", "raised"} =>
          /\ g.pc = "returned"
          /\ LET asked == IF g.key.type = "tuple"
                          THEN {g.key.items[i] : i \in 1 .. Len(g.key.items)}
                          ELSE {g.key}
             IN  g.result = [arg \in asked |-> g.data[arg]]

\* The suffixes of a kind in a help string.
Suffixes(help, kind) == Cardinality({i \in 1 .. Len(help) : help[i].kind = kind})

\* C15: after construction and any number of replace() calls, an option with
\* a help string holds the suffix that is due exactly once: ' Default: ...'
\* when it has a default that is not None, otherwise ' Required.' when it
\* is required; and replace() can be called on what replace() returns.
C15_HelpSuffixOnce ==
    LET o == cliOption
    IN  /\ (o.pc = "built" /\ "help" \in o.kwargs.passed) =>
              IF "default" \in o.kwargs.passed /\ o.kwargs.default # NONE
              THEN Suffixes(o.kwargs.help, "Default") = 1
              ELSE ("required" \in o.kwargs.passed /\ o.kwargs.required) =>
                       Suffixes(o.kwargs.help, "Required") = 1
        /\ o.pc = "raised" => Refused(o.kwargs)

\* C16: count_lines returns the number of lines of the file, for every
\* file: 0 for a file with no lines.
C16_CountsEveryFile ==
    /\ countCall.pc # "raised"
    /\ countCall.pc = "returned" => countCall.result = countCall.lines

\* C17: sniff(f + '.gz', default, allow_excel, strict) is what
\* sniff(f, default, allow_excel, strict) is, for every file name f and every
\* value of the other arguments; and with allow_excel = False neither sniff
\* nor resolve_delim returns the 'xlsx' format.
C17_SniffLooksThroughGz ==
    LET c == sniffCall
    IN  c.pc \in {"returned", "raised"} =>
          /\ (c.fn = "sniff" /\ c.file.exts # <<>> /\ c.file.exts[Len(c.file.exts)] = "gz") =>
                c.result = Sniff([c.file EXCEPT !.exts = SubSeq(c.file.exts, 1, Len(c.file.exts) - 1)],
                                 c.default, c.allow_excel, c.strict)
          /\ (~c.allow_excel /\ c.result.type = "IOFormat") => c.result.in_delim # "xlsx"

\* The reservoir: the items the call would return if the stream ended now.
\* Before line 62 it is the list being filled, in the loop it is what line
\* 89 would select, after line 89 it is `values`.
Reservoir(c) ==
    IF pc[c] \in {"loop", "skipcalc", "skip", "admit", "select"}
    THEN Selected(c)
    ELSE values[c]

\* C18: at every point of a call after items start being consumed, the
\* reservoir holds exactly min(k, number of items consumed so far) items.
C18_ReservoirSize ==
    \A c \in Calls :
        (pc[c] \notin {"idle", "raised"} /\ pos[c] >= 1) =>
            Len(Reservoir(c)) = Min(k[c], pos[c])

\* The call is in its loop after an admission, with more than k items
\* consumed.
C18_Witness ==
    \E c \in Calls :
        pc[c] \in {"loop", "skipcalc", "skip"} /\ admitted[c] >= 1 /\ pos[c] > k[c]

\* C19: the sequence the call stores its candidate items in never holds
\* more than k entries, whatever the number of admissions.
C19_ValuesAtMostK ==
    \A c \in Calls : k[c] >= 1 => Len(values[c]) <= k[c]

\* The phase of a call: FILLING up to the end of line 60, SKIP_SAMPLING in
\* lines 62-87, DONE once the loop is left (lines 89-94).
Phase(p) ==
    CASE p \in {"ready", "fill"} -> "FILLING"
      [] p \in {"setup", "loop", "skipcalc", "skip", "admit"} -> "SKIP_SAMPLING"
      [] p \in {"select", "shuffle", "return", "done"} -> "DONE"
      [] p = "raised" -> "RAISED"
      [] OTHER -> "IDLE"

\* C20: a call goes from FILLING to SKIP_SAMPLING to DONE in that order: no
\* step goes back to FILLING, FILLING is not followed by DONE, DONE is
\* never left and a call that has returned takes no step, and DONE is
\* entered only from the loop: by the W >= 1 exit of line 73 or by the
\* stream's exhaustion at line 79.
C20_PhasesInOrder ==
    [][\A c \in Calls :
          LET from == Phase(pc[c])
              to   == Phase(pc'[c])
          IN  /\ to = "FILLING" => from = "FILLING"
              /\ from = "FILLING" => to \in {"FILLING", "SKIP_SAMPLING", "RAISED"}
              /\ from = "SKIP_SAMPLING" => to \in {"SKIP_SAMPLING", "DONE", "RAISED"}
              /\ from = "DONE" => to = "DONE"
              /\ pc[c] = "done" => pc'[c] = "done"
              /\ (from # "DONE" /\ to = "DONE") =>
                    \/ pc[c] = "loop" /\ W'[c] >= Scale /\ exit'[c] = "converged"
                    \/ pc[c] = "skip" /\ Outcome(c) = "stop" /\ exit'[c] = "exhausted"
      ]_vars

\* A call has returned after an admission, the stream exhausted.
C20_Witness ==
    \E c \in Calls : pc[c] = "done" /\ exit[c] = "exhausted" /\ admitted[c] >= 1

\* The stream is finite, raises nothing and ends before the fill has k items.
ShortStream(c) == k[c] >= 1 /\ ~endless[c] /\ errAt[c] = 0 /\ n[c] < k[c]

\* C21: when the stream yields fewer than k items the call returns right
\* after the fill has seen the exhaustion: line 69 is never executed, no
\* draw is made for W or for a skip, and next() is not called on the
\* exhausted stream again (the n items and the one call that finds the end).
C21_ShortStreamSkipsLoop ==
    \A c \in Calls :
        ShortStream(c) =>
            /\ iters[c] = 0
            /\ drawn[c] = <<>>
            /\ attempts[c] <= n[c] + 1

\* C22: W starts at 1.0, stays in (0, 1] throughout the call whatever the
\* draws, and never increases.
C22_WeightInUnitInterval ==
    [][\A c \in Calls :
          k[c] >= 1 =>
              /\ W[c] = Scale \/ iters[c] >= 1
              /\ W'[c] >= 1
              /\ W'[c] <= Scale
              /\ W'[c] <= W[c]
      ]_vars

\* C23: for k >= 1 the skip computation never fails: past the W >= 1 check
\* W is strictly between 0 and 1 (the divisor ln(1 - W) is not zero), the
\* skip count is a non-negative integer, and a call whose stream raises
\* nothing does not raise.
C23_SkipNeverFails ==
    \A c \in Calls :
        k[c] >= 1 =>
            /\ pc[c] \in {"skipcalc", "skip", "admit"} => (W[c] >= 1 /\ W[c] < Scale)
            /\ skip[c] >= 0
            /\ errAt[c] = 0 => pc[c] # "raised"

\* The stream position of the item each slot holds (line 89 applied to the
\* positions the entries of `values` were read at).
SlotOrigins(c) == [i \in 1 .. irange[c] |-> origin[c][indices[c][i] + 1]]

\* C24: an admission changes exactly one slot of the reservoir: the slot
\* drawn by randrange(k), an index of [0, k), comes to hold the admitted
\* item, and each of the other k - 1 slots holds after the admission the
\* item it held before.
C24_AdmissionChangesOneSlot ==
    [][\A c \in Calls :
          (pc[c] = "admit" /\ pc'[c] # "admit") =>
              /\ pc'[c] = "loop"
              /\ irange[c] = k[c]
              /\ admitted'[c] = admitted[c] + 1
              /\ \E s \in 0 .. (k[c] - 1) :
                    /\ s = RandBelow(drawn'[c][Len(drawn'[c])], k[c])
                    /\ Selected(c)'[s + 1] = newval[c]
                    /\ SlotOrigins(c)'[s + 1] = pos[c]
                    /\ \A i \in (1 .. k[c]) \ {s + 1} :
                          /\ Selected(c)'[i] = Selected(c)[i]
                          /\ SlotOrigins(c)'[i] = SlotOrigins(c)[i]
      ]_vars

\* After an admission into one of at least two slots, a slot holds an
\* admitted item and another still holds its fill item.
C24_Witness ==
    \E c \in Calls :
        /\ pc[c] = "loop"
        /\ admitted[c] >= 1
        /\ k[c] >= 2
        /\ \E i, j \in 1 .. irange[c] :
              /\ SlotOrigins(c)[i] > k[c]
              /\ SlotOrigins(c)[j] = j

\* The stream position of the j-th item taken for admission (line 79).
TakePos(c, j) ==
    CHOOSE p \in 1 .. Len(why[c]) :
        /\ why[c][p] = "take"
        /\ Cardinality({q \in 1 .. p : why[c][q] = "take"}) = j

\* The admissions made into slot i (0-based): the j-th admission's slot is
\* the third draw of the j-th loop iteration (lines 69, 77 and 84).
AdmissionsInto(c, i) ==
    {j \in 1 .. admitted[c] : RandBelow(drawn[c][3 * j], k[c]) = i}

Max(S) == CHOOSE x \in S : \A y \in S : y <= x

\* The stream position slot i (0-based) ends up holding: that of the item
\* most recently admitted to it, or i + 1 if it was never overwritten.
SlotHolds(c, i) ==
    IF AdmissionsInto(c, i) = {} THEN i + 1
    ELSE TakePos(c, Max(AdmissionsInto(c, i)))

SkipAsked(c) == SkipFrom(drawn[c][Len(drawn[c])], W[c], 0)

\* The items dropped since the last item that was kept (filled or taken).
RECURSIVE TrailingSkips(_)
TrailingSkips(w) ==
    IF w = <<>> \/ w[Len(w)] # "skip" THEN 0
    ELSE 1 + TrailingSkips(SubSeq(w, 1, Len(w) - 1))

\* C26: a skip step with skip count s discards exactly the next s stream
\* items and admits the item right after them; if fewer than s + 1 items
\* remain, the loop ends with the reservoir as it was before the step and
\* no slot index is drawn.
C26_SkipDiscardsThenAdmits ==
    [][\A c \in Calls :
          pc[c] = "skip" =>
              /\ Selected(c)' = Selected(c)
              /\ values'[c] = values[c]
              /\ drawn'[c] = drawn[c]
              /\ TrailingSkips(why[c]) + skip[c] = SkipAsked(c)
              /\ pc'[c] = "skip" =>
                    /\ skip[c] > 0
                    /\ pos'[c] = pos[c] + 1
                    /\ why'[c] = Append(why[c], "skip")
              /\ pc'[c] = "admit" =>
                    /\ TrailingSkips(why[c]) = SkipAsked(c)
                    /\ pos'[c] = pos[c] + 1
                    /\ why'[c] = Append(why[c], "take")
                    /\ newval'[c] = Letter(pos[c] + 1)
              /\ pc'[c] = "select" =>
                    /\ pos[c] = n[c]
                    /\ pos'[c] = pos[c]
                    /\ TrailingSkips(why[c]) < SkipAsked(c) + 1
                    /\ exit'[c] = "exhausted"
                    /\ admitted'[c] = admitted[c]
              /\ pc'[c] = "raised" => errAt[c] = pos[c] + 1
      ]_vars

\* The loop has ended in the middle of a skip, after an earlier skip that
\* dropped an item and admitted the next.
C26_Witness ==
    \E c \in Calls :
        /\ exit[c] = "exhausted"
        /\ admitted[c] >= 1
        /\ Count(why[c], "skip") >= 1
        /\ skip[c] >= 1

\* One call with k >= 1 on any finite stream.  A call that has not returned
\* or raised goes on: the interpreter runs it.
FiniteInit ==
    \E in1 \in CallInputs(1 .. TermMaxK, TermMaxLen, FALSE, TRUE) :
        /\ InitWith([c \in Calls |-> IF c = 1 THEN in1 ELSE NoCall], {1})
        /\ UtilsIdle({})

FiniteSpec == FiniteInit /\ [][Next]_vars /\ \A c \in Calls : WF_vars(Step(c))

\* C27: on every finite stream and every k >= 1 the call ends (it returns
\* or raises), whatever the draws: an iteration of the loop that does not
\* leave it has consumed at least one item of the stream, so there are at
\* most n - k admissions and at most one iteration more than admissions.
C27_TerminatesOnFiniteStream ==
    /\ [](\A c \in Calls :
             (k[c] >= 1 /\ ~endless[c]) =>
                 /\ admitted[c] <= (IF n[c] > k[c] THEN n[c] - k[c] ELSE 0)
                 /\ iters[c] <= admitted[c] + 1
                 /\ admitted[c] >= 1 => pos[c] >= k[c] + admitted[c])
    /\ \A c \in Calls :
          (pc[c] = "ready" /\ k[c] >= 1 /\ ~endless[c])
              ~> (pc[c] \in {"done", "raised"})

\* A call on more than k items has returned after n - k admissions, the
\* most the stream allows.
C27_Witness ==
    \E c \in Calls :
        /\ Returned(c)
        /\ n[c] > k[c]
        /\ admitted[c] = n[c] - k[c]

\* The call is between line 65 and line 89: `indices` is the loop's map.
InLoop(c) == pc[c] \in {"loop", "skipcalc", "skip", "admit", "select"}

\* C28: the placeholder written over a replaced entry never reaches the
\* caller: throughout the loop `indices` points each slot at an entry of
\* `values` of its own that has not been replaced, the replaced entries and
\* only they hold None, and the list returned holds only items read from
\* the stream.
C28_PlaceholderNeverReturned ==
    \A c \in Calls :
        k[c] >= 1 =>
            /\ InLoop(c) =>
                  /\ Len(indices[c]) = irange[c]
                  /\ \A i \in 1 .. irange[c] :
                        /\ indices[c][i] + 1 \in 1 .. Len(values[c])
                        /\ origin[c][indices[c][i] + 1] # 0
                        /\ values[c][indices[c][i] + 1] # NONE
                  /\ \A i, j \in 1 .. irange[c] :
                        indices[c][i] = indices[c][j] => i = j
                  /\ \A e \in 1 .. Len(values[c]) :
                        /\ values[c][e] = NONE <=> origin[c][e] = 0
                        /\ values[c][e] = NONE <=> (\A i \in 1 .. irange[c] : indices[c][i] + 1 # e)
            /\ Returned(c) =>
                  \A i \in 1 .. Len(result[c]) :
                      /\ result[c][i] # NONE
                      /\ resOrigin[c][i] \in 1 .. pos[c]
                      /\ result[c][i] = Letter(resOrigin[c][i])

\* A call returned after two admissions: `values` held two placeholders
\* when line 89 read it.
C28_Witness ==
    \E c \in Calls :
        /\ Returned(c)
        /\ admitted[c] >= 2
        /\ Len(result[c]) = k[c]

\* The sample sizes for which random() ** kinv can round to 1.0 (the comment
\* of lines 71-72).
RoundingKs == {kk \in 1 .. MaxK : \E u \in Raw : PowKinv(u, kk) >= Scale}

\* One call with such a k on a finite stream that raises nothing.
ConvInit ==
    \E in1 \in CallInputs(RoundingKs, ConvMaxLen, FALSE, FALSE) :
        /\ InitWith([c \in Calls |-> IF c = 1 THEN in1 ELSE NoCall], {1})
        /\ UtilsIdle({})

ConvSpec == ConvInit /\ [][Next]_vars

\* C29: the W >= 1 exit of line 73 is taken in the first iteration of the
\* loop or not at all: once W is below 1 it stays below 1, and a loop whose
\* W is below 1 is left for line 89 only at the exhaustion of the stream.
C29_ConvergenceOnlyAtFirstIteration ==
    [][\A c \in Calls :
          k[c] >= 1 =>
              /\ W[c] < Scale => W'[c] < Scale
              /\ exit'[c] = "converged" => (iters'[c] = 1 /\ W'[c] >= Scale)
              /\ (InLoop(c) /\ W[c] < Scale /\ pc[c] # "select" /\ pc'[c] = "select") =>
                    /\ pc[c] = "skip"
                    /\ Outcome(c) = "stop"
                    /\ exit'[c] = "exhausted"
      ]_vars

\* The loop was left at the exhaustion of the stream in its second
\* iteration, where the power of line 69 was 1.0 and W stayed below 1.
C29_Witness ==
    \E c \in Calls :
        /\ Returned(c)
        /\ iters[c] = 2
        /\ PowKinv(drawn[c][4], k[c]) >= Scale
        /\ W[c] < Scale
        /\ exit[c] = "exhausted"

====
